---- MODULE Spec2Model ----
(***************************************************************************)
(* The UserPosts list view (src/src/components/Profile/UserPosts.tsx) as a *)
(* state machine: the component's useState cells, the GET and DELETE       *)
(* requests it has outstanding, and the backend's item count.              *)
(*                                                                         *)
(* One action is one event-loop turn: a handler call, or the continuation  *)
(* of an awaited request, together with the render it causes and the       *)
(* useEffect run of that render (state updates of one turn are batched     *)
(* into one render, React 18).                                             *)
(***************************************************************************)
EXTENDS Integers, Sequences, FiniteSets, TLC

VARIABLES
    posts,          \* useState posts (line 24): the page of results held
    isLoading,      \* useState isLoading (line 25)
    showErrorModal, \* useState showErrorModal (line 26)
    errorDetails,   \* useState errorDetails (lines 27-31)
    pagination,     \* useState pagination (lines 32-37)
    sortBy,         \* useState sortBy (line 38)
    filters,        \* useState filters (line 39)
    requests,       \* outstanding GET requests of fetchPosts, oldest first
    deleting,       \* handleDeletePost calls in progress, by slot
    serverItems,    \* the backend's number of posts of this user
    mounted,        \* whether the mount effect has run
    lastOp,         \* the event-loop turn that produced this state
    hist,           \* the effect's requests since the last query-changing action
    actions,        \* the number of handler calls made by the user so far
    route,          \* the page the router shows
    profilePage,    \* the state of ProfilePage and its calls in progress
    changePasswordPage, \* the state of ChangePasswordPage and its call in progress
    adminDashboard  \* the props, the state and the output of AdminDashboard

vars == <<posts, isLoading, showErrorModal, errorDetails, pagination, sortBy,
          filters, requests, deleting, serverItems, mounted, lastOp, hist,
          actions, route, profilePage, changePasswordPage, adminDashboard>>

\* the variables of UserPosts, but lastOp
userPosts == <<posts, isLoading, showErrorModal, errorDetails, pagination, sortBy,
               filters, requests, deleting, serverItems, mounted, hist, actions>>

\* the variables of the account pages and the admin page
account == <<route, profilePage, changePasswordPage, adminDashboard>>

view == <<posts, isLoading, showErrorModal, errorDetails, pagination, sortBy, filters>>

----------------------------------------------------------------------------
(* Bounds of the model *)

\* the backend holds at most this many posts when the view mounts
MaxItems == 7
\* a user action that fetches is taken only with fewer GETs outstanding
MaxRequests == 2
\* handleDeletePost calls in progress at once
MaxDeletes == 1
\* the counter of hist saturates here
MaxCount == 2
\* the user calls at most this many handlers (sort, filter, reset, page, delete)
MaxActions == 2

(* Program constants *)

\* pagination.itemsPerPage of useState (line 36)
ItemsPerPage == 6

\* useState('publishDate') (line 38)
DefaultSort == "publishDate"

\* the sort keys PostsFilterBar passes to onSortChange
SortKeys == {"publishDate", "likesCount"}

----------------------------------------------------------------------------
(* FilterState (lines 9-16): an object with optional keys *)

EmptyFilters == [k \in {} |-> 0]

Only(key, value) == [k \in {key} |-> value]

\* the partial filters PostsFilterBar passes to onFilterChange
PartialFilters ==
    { Only("categoryIds", <<1, 2>>), Only("categoryIds", <<>>),
      Only("searchQuery", "react"),
      Only("dateInterval", [startDate |-> "2024-01-01", endDate |-> ""]),
      Only("dateInterval", [startDate |-> "", endDate |-> "2024-12-31"]) }

\* MergeFilters that drops the previous filters
ReplaceFilters(prev, newFilters) == newFilters

\* { ...prev, ...newFilters } (line 85)
MergeFilters(prev, newFilters) ==
    [k \in (DOMAIN prev) \cup (DOMAIN newFilters) |->
        IF k \in DOMAIN newFilters THEN newFilters[k] ELSE prev[k]]

----------------------------------------------------------------------------
(* Messages.  A message is the copy of an i18n key, a string of the        *)
(* backend, or absent.                                                     *)

NoMessage == [src |-> "none", text |-> ""]

\* t(key) of useTranslation (line 23)
T(key) == [src |-> "i18n", text |-> key]

\* Math.ceil(a / b) for b > 0 (line 105); Math.ceil(-1/6) is (-)0
Ceil(a, b) == -((-a) \div b)

Min(a, b) == IF a < b THEN a ELSE b

----------------------------------------------------------------------------
(* The backend: GET /posts/user/posts and DELETE /posts/{id} *)

\* response.data.pagination of a GET for page `page` with limit `limit`
ServerPagination(page, limit, items) ==
    [currentPage |-> page, totalPages |-> Ceil(items, limit),
     totalItems |-> items, itemsPerPage |-> limit]

\* the number of posts on page `page`
PageLen(page, limit, items) ==
    IF items - (page - 1) * limit <= 0 THEN 0
    ELSE Min(limit, items - (page - 1) * limit)

\* response.data.posts: the posts the query selects, by the query and their number
ServerPosts(r, items) ==
    [page |-> r.page, sort |-> r.sort, filters |-> r.filters,
     len |-> PageLen(r.page, r.limit, items)]

\* how a GET ends: with a response, with an HTTP error whose body is
\* {error: ...}, or with a network failure (no response)
GetOutcomes == {"ok", "http", "network"}

\* how a DELETE ends; "other" is an error that is not an AxiosError
DeleteOutcomes == {"ok", "http", "network", "other"}

\* error.response?.data?.error of a failure
BackendError(outcome) ==
    IF outcome = "http" THEN [src |-> "backend", text |-> "Database unavailable"]
    ELSE NoMessage

----------------------------------------------------------------------------
(* The component's code *)

\* errorDetails === null (line 31)
NoError == [message |-> NoMessage, details |-> NoMessage, code |-> ""]

\* LoadError with the code of a failed delete
LoadErrorDeleteCode(outcome) ==
    [message |-> T("userPosts.errors.loadFailed"),
     details |-> T("error.tryAgain"),
     code |-> "POST_DELETE_ERROR"]

\* the catch block of fetchPosts (lines 63-69)
LoadError(outcome) ==
    [message |-> T("userPosts.errors.loadFailed"),
     details |-> T("error.tryAgain"),
     code |-> "POSTS_LOAD_ERROR"]

\* DeleteError that never reads the backend's message
DeleteErrorFallbackOnly(outcome) ==
    [message |-> T("userPosts.errors.deleteFailed"),
     details |-> T("error.tryAgain"),
     code |-> "POST_DELETE_ERROR"]

\* the catch block of handleDeletePost (lines 109-122)
DeleteError(outcome) ==
    IF outcome \in {"http", "network"}
    THEN [message |-> IF BackendError(outcome) # NoMessage
                      THEN BackendError(outcome)
                      ELSE T("userPosts.errors.deleteFailed"),
          details |-> T("error.tryAgain"),
          code |-> "POST_DELETE_ERROR"]
    ELSE [message |-> T("userPosts.errors.deleteFailed"),
          details |-> T("error.tryAgain"),
          code |-> "POST_DELETE_ERROR"]

\* ResetPage that keeps the page
ResetPageKept(prev) == prev

\* prev => ({ ...prev, currentPage: 1 }) (lines 81, 86, 92)
ResetPage(prev) == [prev EXCEPT !.currentPage = 1]

\* PageAccepted without the upper limit
PageAcceptedNoUpper(newPage, pag) == newPage >= 1

\* the condition of handlePageChange (line 96)
PageAccepted(newPage, pag) == newPage >= 1 /\ newPage <= pag.totalPages

\* NewTotalPages without the deleted item taken off
NewTotalPagesStale(pag) == Ceil(pag.totalItems, pag.itemsPerPage)

\* newTotalPages of handleDeletePost (line 105)
NewTotalPages(pag) == Ceil(pag.totalItems - 1, pag.itemsPerPage)

\* the condition of handleDeletePost's second fetch (line 106)
SecondFetchNeeded(pag) ==
    pag.currentPage > NewTotalPages(pag) /\ NewTotalPages(pag) > 0

\* EffectRuns with pagination.currentPage left out of the dependencies
EffectRunsWithoutPage(prevPage, prevSort, nextPage, nextSort, filtersReplaced) ==
    prevSort # nextSort \/ filtersReplaced

\* EffectRuns with filters left out of the dependencies
EffectRunsWithoutFilters(prevPage, prevSort, nextPage, nextSort, filtersReplaced) ==
    prevPage # nextPage \/ prevSort # nextSort

\* EffectRuns of an effect without a dependency list: it runs with every render
EffectRunsAlways(prevPage, prevSort, nextPage, nextSort, filtersReplaced) == TRUE

\* whether the dependencies [pagination.currentPage, sortBy, filters] of the
\* effect differ between two renders (line 77).  React compares with
\* Object.is: filters differs whenever a setFilters call installed a new
\* object, whatever its content.
EffectRuns(prevPage, prevSort, nextPage, nextSort, filtersReplaced) ==
    prevPage # nextPage \/ prevSort # nextSort \/ filtersReplaced

\* n.toString() for n >= 0 (lines 45-46)
RECURSIVE NumberToString(_)
NumberToString(n) ==
    LET digit == <<"0", "1", "2", "3", "4", "5", "6", "7", "8", "9">>[(n % 10) + 1]
    IN IF n < 10 THEN digit ELSE NumberToString(n \div 10) \o digit

\* ids.join(',') (line 57)
RECURSIVE Join(_)
Join(ids) ==
    IF ids = <<>> THEN ""
    ELSE IF Len(ids) = 1 THEN NumberToString(ids[1])
    ELSE NumberToString(ids[1]) \o "," \o Join(Tail(ids))

\* params.append(key, value) when `present` (lines 50-58)
Append1(params, present, key, value) ==
    IF present
    THEN [k \in (DOMAIN params) \cup {key} |-> IF k = key THEN value ELSE params[k]]
    ELSE params

\* currentFilters.dateInterval?.[field], "" when undefined
DateOf(currentFilters, field) ==
    IF "dateInterval" \in DOMAIN currentFilters
    THEN currentFilters.dateInterval[field] ELSE ""

\* currentFilters.categoryIds, empty when undefined
CategoriesOf(currentFilters) ==
    IF "categoryIds" \in DOMAIN currentFilters THEN currentFilters.categoryIds ELSE <<>>

\* Params that also sends the search query
ParamsWithSearch(page, limit, sort, currentFilters) ==
    LET base == [k \in {"page", "limit", "sort"} |->
                    IF k = "page" THEN NumberToString(page)
                    ELSE IF k = "limit" THEN NumberToString(limit) ELSE sort]
        withStart == Append1(base, DateOf(currentFilters, "startDate") # "",
                             "startDate", DateOf(currentFilters, "startDate"))
        withEnd == Append1(withStart, DateOf(currentFilters, "endDate") # "",
                           "endDate", DateOf(currentFilters, "endDate"))
        withCategories == Append1(withEnd, Len(CategoriesOf(currentFilters)) > 0,
                                  "categories", Join(CategoriesOf(currentFilters)))
    IN Append1(withCategories, "searchQuery" \in DOMAIN currentFilters,
               "search", "react")

\* the URLSearchParams of fetchPosts (lines 44-58)
Params(page, limit, sort, currentFilters) ==
    LET base == [k \in {"page", "limit", "sort"} |->
                    IF k = "page" THEN NumberToString(page)
                    ELSE IF k = "limit" THEN NumberToString(limit) ELSE sort]
        withStart == Append1(base, DateOf(currentFilters, "startDate") # "",
                             "startDate", DateOf(currentFilters, "startDate"))
        withEnd == Append1(withStart, DateOf(currentFilters, "endDate") # "",
                           "endDate", DateOf(currentFilters, "endDate"))
    IN Append1(withEnd, Len(CategoriesOf(currentFilters)) > 0,
               "categories", Join(CategoriesOf(currentFilters)))

\* the GET of fetchPosts(page, sort, currentFilters) (lines 44-60); owner is
\* 0 for a call by the effect and the slot of the handleDeletePost call
\* otherwise; overtaken: a request issued later has already been answered
Request(page, limit, sort, currentFilters, owner) ==
    [page |-> page, limit |-> limit, sort |-> sort, filters |-> currentFilters,
     params |-> Params(page, limit, sort, currentFilters),
     owner |-> owner, overtaken |-> FALSE]

\* the requests the effect issues after a render with the given state
\* (lines 75-77)
Effect(pag, sort, f, filtersReplaced) ==
    IF EffectRuns(pagination.currentPage, sortBy, pag.currentPage, sort,
                  filtersReplaced)
    THEN <<Request(pag.currentPage, pag.itemsPerPage, sort, f, 0)>>
    ELSE <<>>

\* Applied with the answers to overtaken requests dropped
AppliedIfLatest(r) == ~r.overtaken

\* whether an answer to request r is applied to the view state (lines 60-62:
\* always; no request is cancelled and no answer is dropped)
Applied(r) == TRUE

----------------------------------------------------------------------------
(* Observation *)

NoPagination ==
    [currentPage |-> 0, totalPages |-> 0, totalItems |-> 0, itemsPerPage |-> 0]

IdleSlot ==
    [stage |-> "idle", pagination |-> NoPagination, sortBy |-> "",
     filters |-> EmptyFilters, fetched |-> <<>>]

\* a turn: the handler or continuation run, the page number passed to
\* handlePageChange, how the request ended, and whether the request answered
\* had been overtaken by a later one
Op(op, arg, outcome, overtaken) ==
    [op |-> op, arg |-> arg, outcome |-> outcome, overtaken |-> overtaken]

\* hist is -1 unless the last action of the user among sort, filter, page,
\* reset and delete was a sort, filter or reset that changed the query
\* state <<page, sort, filters>>; then it counts, up to MaxCount, the
\* requests the effect has issued for that query state since, the action's
\* own included
HistOfAction(page, sort, f, issued) ==
    IF <<page, sort, f>> # <<pagination.currentPage, sortBy, filters>>
    THEN Len(issued)
    ELSE -1

\* the number of requests of `issued` made by the effect for the query state
\* the last action set: page 1 of the current sortBy and filters
Refetches(issued) ==
    Cardinality({i \in 1..Len(issued) :
        /\ issued[i].owner = 0
        /\ issued[i].page = 1
        /\ issued[i].sort = sortBy
        /\ issued[i].filters = filters})

\* hist after the continuation of a request that issues `issued`
HistOfAnswer(issued) ==
    IF hist >= 0 THEN Min(MaxCount, hist + Refetches(issued)) ELSE -1

----------------------------------------------------------------------------
(* The state after construction (lines 24-39), before the mount effect *)

NoPosts == [page |-> 0, sort |-> "", filters |-> EmptyFilters, len |-> 0]

InitialPagination ==
    [currentPage |-> 1, totalPages |-> 1, totalItems |-> 0,
     itemsPerPage |-> ItemsPerPage]

InitUserPosts ==
    /\ posts = NoPosts
    /\ isLoading = TRUE
    /\ showErrorModal = FALSE
    /\ errorDetails = NoError
    /\ pagination = InitialPagination
    /\ sortBy = DefaultSort
    /\ filters = EmptyFilters
    /\ requests = <<>>
    /\ deleting = [d \in 1..MaxDeletes |-> IdleSlot]
    /\ serverItems \in 0..MaxItems
    /\ mounted = FALSE
    /\ lastOp = Op("init", 0, "", FALSE)
    /\ hist = -1
    /\ actions = 0

----------------------------------------------------------------------------
(* The account pages: ProfilePage (unnamed/part_000) and                   *)
(* ChangePasswordPage.  Their messages are plain strings.                  *)

\* null of useState<string | null>(null)
Null == "<null>"

\* a || b on strings and undefined
JsOr(a, b) == IF a \in {Null, ""} THEN b ELSE a

\* how a call to the backend ends: with a response, with an HTTP error whose
\* body is {error: ...}, with a network failure (an AxiosError without a
\* response), or with an error that is not an AxiosError
CallOutcomes == {"ok", "http", "network", "other"}

\* axios.isAxiosError(error)
IsAxiosError(outcome) == outcome \in {"http", "network"}

\* error.response?.data?.error of a failed call
ResponseError(outcome) == IF outcome = "http" THEN "Login already taken" ELSE Null

\* the pages the router shows
PostsRoute == "/my-posts"
ProfileRoute == "/profile"
ChangePasswordRoute == "/change-password/:token"
LoginRoute == "/login"

\* useState of ProfilePage (lines 37-47); calls holds the handlers that
\* wait for their answer
InitProfilePage ==
    [isEditing |-> FALSE, isLoading |-> FALSE, error |-> Null,
     isModalOpen |-> FALSE, modalStatus |-> "success", modalMessage |-> "",
     calls |-> {}]

\* the values typed into a password field
Passwords == {"", "short", "secret"}

\* useState of ChangePasswordPage (lines 72-86); stage is the place
\* handleSubmit waits at, timer the setTimeout of line 134
InitChangePasswordPage ==
    [formData |-> [oldPassword |-> "", newPassword |-> "", confirmPassword |-> ""],
     error |-> Null, loading |-> FALSE,
     isModalOpen |-> FALSE, modalStatus |-> "success", modalMessage |-> "",
     stage |-> "idle", timer |-> FALSE, loggedOut |-> FALSE]

----------------------------------------------------------------------------
(* AdminDashboard: its prop currentUser, its state activeTab, and the      *)
(* element its render returns                                              *)

\* the users passed as currentUser have ids up to this
MaxUsers == 7

\* the values of the enum UserRole
Roles == {"admin", "user"}

\* UserRole.ADMIN (line 17)
ADMIN == "admin"

\* currentUser: null (line 8)
NoUser == [id |-> 0, role |-> "null"]

Users == [id : 1..MaxUsers, role : Roles]

\* the pages the router shows
AdminRoute == "/admin"
HomeRoute == "/"

\* the type ActiveTab (line 11) and the ids of tabs, in order (lines 21-25)
Tabs == <<"posts", "comments", "categories">>

\* currentUser?.role (line 17)
RoleOf(currentUser) == IF currentUser = NoUser THEN "undefined" ELSE currentUser.role

\* renderContent (lines 27-36): the component and its prop currentUser
RenderContent(activeTab, currentUser) ==
    IF activeTab = "posts" THEN [component |-> "PostsManagement", user |-> currentUser.id]
    ELSE IF activeTab = "comments"
    THEN [component |-> "CommentsManagement", user |-> currentUser.id]
    ELSE IF activeTab = "categories"
    THEN [component |-> "CategoriesManagement", user |-> 0]
    ELSE [component |-> "", user |-> 0]

\* <Navigate to="/" replace /> (line 18)
NavigateElement ==
    [element |-> "Navigate", to |-> HomeRoute, content |-> [component |-> "", user |-> 0]]

\* Render without the test of the role
RenderForAnyone(currentUser, activeTab) ==
    [element |-> "dashboard", to |-> "",
     content |-> RenderContent(activeTab, currentUser)]

\* the element AdminDashboard returns (lines 17-19 and 38-68)
Render(currentUser, activeTab) ==
    IF RoleOf(currentUser) # ADMIN THEN NavigateElement
    ELSE [element |-> "dashboard", to |-> "",
          content |-> RenderContent(activeTab, currentUser)]

\* the first render: useState('posts') (line 15)
InitAdminDashboard(currentUser) ==
    [currentUser |-> currentUser, activeTab |-> "posts",
     rendered |-> Render(currentUser, "posts")]

\* the state after construction, UserPosts shown
Init ==
    /\ InitUserPosts
    /\ route = PostsRoute
    /\ profilePage = InitProfilePage
    /\ changePasswordPage = InitChangePasswordPage
    /\ adminDashboard = InitAdminDashboard(NoUser)

----------------------------------------------------------------------------
(* Rendering conditions *)

\* PostsFilterBar is rendered with every render (lines 141-147); the bound
\* MaxRequests limits the GETs a user piles up
FilterBarUsable ==
    mounted /\ Len(requests) < MaxRequests /\ actions < MaxActions

\* PostCard and Pagination are rendered when not loading and posts is not
\* empty (lines 149-177)
ListUsable == mounted /\ ~isLoading /\ posts.len > 0 /\ actions < MaxActions

----------------------------------------------------------------------------
(* Actions *)

\* the first run of the effect (lines 75-77)
Mount ==
    /\ UNCHANGED account
    /\ ~mounted
    /\ mounted' = TRUE
    /\ LET issued == <<Request(pagination.currentPage, pagination.itemsPerPage,
                               sortBy, filters, 0)>>
       IN /\ requests' = requests \o issued
          /\ lastOp' = Op("mount", 0, "", FALSE)
    /\ isLoading' = TRUE
    /\ UNCHANGED <<posts, showErrorModal, errorDetails, pagination, sortBy,
                   filters, deleting, serverItems, hist, actions>>

\* handleSortChange (lines 79-82)
HandleSortChange(newSort) ==
    /\ UNCHANGED account
    /\ FilterBarUsable
    /\ LET pag == ResetPage(pagination)
           issued == Effect(pag, newSort, filters, FALSE)
       IN /\ sortBy' = newSort
          /\ pagination' = pag
          /\ requests' = requests \o issued
          /\ isLoading' = IF issued # <<>> THEN TRUE ELSE isLoading
          /\ lastOp' = Op("handleSortChange", 0, "", FALSE)
          /\ hist' = HistOfAction(pag.currentPage, newSort, filters, issued)
    /\ actions' = actions + 1
    /\ UNCHANGED <<posts, showErrorModal, errorDetails, filters, deleting,
                   serverItems, mounted>>

\* handleFilterChange (lines 84-87)
HandleFilterChange(newFilters) ==
    /\ UNCHANGED account
    /\ FilterBarUsable
    /\ LET pag == ResetPage(pagination)
           merged == MergeFilters(filters, newFilters)
           issued == Effect(pag, sortBy, merged, TRUE)
       IN /\ filters' = merged
          /\ pagination' = pag
          /\ requests' = requests \o issued
          /\ isLoading' = IF issued # <<>> THEN TRUE ELSE isLoading
          /\ lastOp' = Op("handleFilterChange", 0, "", FALSE)
          /\ hist' = HistOfAction(pag.currentPage, sortBy, merged, issued)
    /\ actions' = actions + 1
    /\ UNCHANGED <<posts, showErrorModal, errorDetails, sortBy, deleting,
                   serverItems, mounted>>

\* handleResetAll (lines 89-93)
HandleResetAll ==
    /\ UNCHANGED account
    /\ FilterBarUsable
    /\ LET pag == ResetPage(pagination)
           issued == Effect(pag, DefaultSort, EmptyFilters, TRUE)
       IN /\ sortBy' = DefaultSort
          /\ filters' = EmptyFilters
          /\ pagination' = pag
          /\ requests' = requests \o issued
          /\ isLoading' = IF issued # <<>> THEN TRUE ELSE isLoading
          /\ lastOp' = Op("handleResetAll", 0, "", FALSE)
          /\ hist' = HistOfAction(pag.currentPage, DefaultSort, EmptyFilters, issued)
    /\ actions' = actions + 1
    /\ UNCHANGED <<posts, showErrorModal, errorDetails, deleting, serverItems,
                   mounted>>

\* handlePageChange (lines 95-99)
HandlePageChange(newPage) ==
    /\ UNCHANGED account
    /\ ListUsable
    /\ Len(requests) < MaxRequests
    /\ LET pag == IF PageAccepted(newPage, pagination)
                  THEN [pagination EXCEPT !.currentPage = newPage]
                  ELSE pagination
           issued == Effect(pag, sortBy, filters, FALSE)
       IN /\ pagination' = pag
          /\ requests' = requests \o issued
          /\ isLoading' = IF issued # <<>> THEN TRUE ELSE isLoading
          /\ lastOp' = Op("handlePageChange", newPage, "", FALSE)
    /\ hist' = -1
    /\ actions' = actions + 1
    /\ UNCHANGED <<posts, showErrorModal, errorDetails, sortBy, filters,
                   deleting, serverItems, mounted>>

\* handleDeletePost up to its first await (lines 101-103): the DELETE is
\* sent; the call keeps the pagination, sortBy and filters of its render
HandleDeletePost(d) ==
    /\ UNCHANGED account
    /\ ListUsable
    /\ deleting[d].stage = "idle"
    /\ deleting' = [deleting EXCEPT ![d] =
           [stage |-> "delete", pagination |-> pagination, sortBy |-> sortBy,
            filters |-> filters, fetched |-> <<>>]]
    /\ lastOp' = Op("handleDeletePost", 0, "", FALSE)
    /\ hist' = -1
    /\ actions' = actions + 1
    /\ UNCHANGED <<posts, isLoading, showErrorModal, errorDetails, pagination,
                   sortBy, filters, requests, serverItems, mounted>>

\* RefetchAfterDelete of a re-fetch that runs whether the DELETE failed or not
RefetchAfterDeleteAlways(outcome) == TRUE

\* whether line 104 is reached: not when axios.delete throws (line 103)
RefetchAfterDelete(outcome) == outcome = "ok"

\* handleDeletePost from the answer to its DELETE (lines 103-104) or into
\* its catch block (lines 109-124)
DeleteResponse(d, outcome) ==
    /\ UNCHANGED account
    /\ deleting[d].stage = "delete"
    /\ outcome = "ok" => serverItems > 0
    /\ LET call == deleting[d]
           issued == IF RefetchAfterDelete(outcome)
                     THEN <<Request(call.pagination.currentPage,
                                    call.pagination.itemsPerPage,
                                    call.sortBy, call.filters, d)>>
                     ELSE <<>>
       IN /\ requests' = requests \o issued
          /\ lastOp' = Op("deleteResponse", 0, outcome, FALSE)
          /\ IF outcome = "ok"
             THEN /\ serverItems' = serverItems - 1
                  /\ isLoading' = TRUE
                  /\ deleting' = [deleting EXCEPT ![d] =
                         [call EXCEPT !.stage = "fetch1",
                                      !.fetched = <<call.pagination.currentPage>>]]
                  /\ UNCHANGED <<errorDetails, showErrorModal>>
             ELSE /\ errorDetails' = DeleteError(outcome)
                  /\ showErrorModal' = TRUE
                  /\ deleting' = [deleting EXCEPT ![d] = IdleSlot]
                  /\ UNCHANGED <<serverItems, isLoading>>
          /\ hist' = HistOfAnswer(issued)
    /\ UNCHANGED <<posts, pagination, sortBy, filters, mounted, actions>>

\* Stored that stores the answer of a failed GET too
StoredAlways(ok, r) == TRUE

\* whether setPosts and setPagination of the try block run (lines 60-62):
\* not when axios.get throws
Stored(ok, r) == ok /\ Applied(r)

\* the requests left when the i-th is answered; the older ones are overtaken
Remaining(i) ==
    [j \in 1..(Len(requests) - 1) |->
        IF j < i THEN [requests[j] EXCEPT !.overtaken = TRUE]
        ELSE requests[j + 1]]

\* fetchPosts from the answer to its GET (lines 60-72), then the caller's
\* continuation: nothing for the effect, lines 105-108 for handleDeletePost;
\* then the render and its effect
FetchResponse(i, outcome) ==
    /\ UNCHANGED account
    /\ i \in 1..Len(requests)
    /\ LET r == requests[i]
           ok == outcome = "ok"
           set == Stored(ok, r)
           pag == IF set THEN ServerPagination(r.page, r.limit, serverItems)
                  ELSE pagination
           call == IF r.owner > 0 THEN deleting[r.owner] ELSE IdleSlot
           second == IF call.stage = "fetch1" /\ SecondFetchNeeded(call.pagination)
                     THEN <<Request(NewTotalPages(call.pagination),
                                    call.pagination.itemsPerPage,
                                    call.sortBy, call.filters, r.owner)>>
                     ELSE <<>>
           issued == second \o Effect(pag, sortBy, filters, FALSE)
           fetched == call.fetched \o [k \in 1..Len(second) |-> second[k].page]
       IN /\ posts' = IF set THEN ServerPosts(r, serverItems) ELSE posts
          /\ pagination' = pag
          /\ errorDetails' = IF ok THEN errorDetails ELSE LoadError(outcome)
          /\ showErrorModal' = IF ok THEN showErrorModal ELSE TRUE
          /\ isLoading' = (issued # <<>>)
          /\ requests' = Remaining(i) \o issued
          /\ deleting' =
                IF r.owner = 0 THEN deleting
                ELSE IF second # <<>>
                     THEN [deleting EXCEPT ![r.owner] =
                             [call EXCEPT !.stage = "fetch2", !.fetched = fetched]]
                     ELSE [deleting EXCEPT ![r.owner] = IdleSlot]
          /\ lastOp' = Op("fetchResponse", 0, outcome, r.overtaken)
          /\ hist' = HistOfAnswer(issued)
    /\ UNCHANGED <<sortBy, filters, serverItems, mounted, actions>>

\* onClose of ErrorModal (line 183)
OnClose ==
    /\ UNCHANGED account
    /\ mounted
    /\ showErrorModal
    /\ showErrorModal' = FALSE
    /\ lastOp' = Op("onClose", 0, "", FALSE)
    /\ UNCHANGED <<posts, isLoading, errorDetails, pagination, sortBy, filters,
                   requests, deleting, serverItems, mounted, hist, actions>>

\* the page numbers Pagination passes to onPageChange
PageInputs == 0..(pagination.totalPages + 1)

Next ==
    \/ Mount
    \/ \E newSort \in SortKeys : HandleSortChange(newSort)
    \/ \E newFilters \in PartialFilters : HandleFilterChange(newFilters)
    \/ HandleResetAll
    \/ \E newPage \in PageInputs : HandlePageChange(newPage)
    \/ \E d \in 1..MaxDeletes : HandleDeletePost(d)
    \/ \E d \in 1..MaxDeletes, outcome \in DeleteOutcomes : DeleteResponse(d, outcome)
    \/ \E i \in 1..(MaxRequests + 2 * MaxDeletes), outcome \in GetOutcomes :
          FetchResponse(i, outcome)
    \/ OnClose

Spec == Init /\ [][Next]_vars

\* Every request is answered or fails in the end, the oldest outstanding
\* GET at the latest when the ones before it are; the mount effect runs.
\* Nothing obliges the user to act.
Fairness ==
    /\ WF_vars(Mount)
    /\ WF_vars(\E outcome \in GetOutcomes : FetchResponse(1, outcome))
    /\ \A d \in 1..MaxDeletes :
          WF_vars(\E outcome \in DeleteOutcomes : DeleteResponse(d, outcome))

FairSpec == Spec /\ Fairness

----------------------------------------------------------------------------
(* ProfilePage (unnamed/part_000) *)

\* the name lastOp gives to the continuation of handler h after its await
Settled(h) == h \o ".settled"

\* a handler of ProfilePage up to its await: setIsLoading(true) and the call
ProfileCall(h) ==
    /\ route = ProfileRoute
    /\ h \notin profilePage.calls
    /\ profilePage' = [profilePage EXCEPT !.isLoading = TRUE, !.calls = @ \cup {h}]
    /\ lastOp' = Op(h, 0, "", FALSE)
    /\ UNCHANGED <<userPosts, route, changePasswordPage, adminDashboard>>

\* the continuation of handler h: `after` is the state its try or catch
\* block leaves, and finally sets isLoading to false
ProfileSettle(h, outcome, after) ==
    /\ h \in profilePage.calls
    /\ profilePage' = [after EXCEPT !.isLoading = FALSE, !.calls = @ \ {h}]
    /\ lastOp' = Op(Settled(h), 0, outcome, FALSE)
    /\ UNCHANGED <<userPosts, route, changePasswordPage, adminDashboard>>

\* setModalStatus, setModalMessage, setIsModalOpen(true)
ProfileModal(page, status, message) ==
    [page EXCEPT !.modalStatus = status, !.modalMessage = message,
                 !.isModalOpen = TRUE]

\* the edit button (line 180)
StartEditing ==
    /\ route = ProfileRoute
    /\ ~profilePage.isEditing
    /\ profilePage' = [profilePage EXCEPT !.isEditing = TRUE]
    /\ lastOp' = Op("startEditing", 0, "", FALSE)
    /\ UNCHANGED <<userPosts, route, changePasswordPage, adminDashboard>>

\* the cancel button of the edit form (lines 253-261)
CancelEditing ==
    /\ route = ProfileRoute
    /\ profilePage.isEditing
    /\ profilePage' = [profilePage EXCEPT !.isEditing = FALSE, !.error = Null]
    /\ lastOp' = Op("cancelEditing", 0, "", FALSE)
    /\ UNCHANGED <<userPosts, route, changePasswordPage, adminDashboard>>

\* handleEditSubmit up to its await (lines 51-54); the form is rendered
\* while editing, its submit button is disabled while loading (line 272)
HandleEditSubmit ==
    /\ profilePage.isEditing
    /\ ~profilePage.isLoading
    /\ ProfileCall("handleEditSubmit")

\* handleEditSubmit after its await (lines 55-71)
EditSubmitSettled(outcome) ==
    ProfileSettle("handleEditSubmit", outcome,
        IF outcome = "ok"
        THEN ProfileModal([profilePage EXCEPT !.isEditing = FALSE, !.error = Null],
                          "success", "Profile updated successfully!")
        ELSE [profilePage EXCEPT
                !.error = JsOr(ResponseError(outcome), "Failed to update profile")])

\* handleImageUpload with a file up to its await (lines 74-78); without a
\* file it does nothing
HandleImageUpload(file) ==
    IF file THEN ProfileCall("handleImageUpload")
    ELSE /\ route = ProfileRoute
         /\ lastOp' = Op("handleImageUpload", 0, "no file", FALSE)
         /\ UNCHANGED <<userPosts, account>>

\* the message the modal shows after a failed upload (line 87)
UploadModalMessage(outcome) == "Failed to update profile picture"

\* handleImageUpload after its await (lines 79-91)
ImageUploadSettled(outcome) ==
    ProfileSettle("handleImageUpload", outcome,
        IF outcome = "ok"
        THEN ProfileModal(profilePage, "success", "Profile image updated successfully!")
        ELSE ProfileModal(
                [profilePage EXCEPT
                    !.error = JsOr(ResponseError(outcome), "Failed to update profile picture")],
                "error", UploadModalMessage(outcome)))

\* handleEmailChange up to its await (lines 95-98); its button is rendered
\* while not editing and disabled while loading (lines 344-346)
HandleEmailChange ==
    /\ ~profilePage.isEditing
    /\ ~profilePage.isLoading
    /\ ProfileCall("handleEmailChange")

\* the message of the catch block of handleEmailChange (lines 105-109)
EmailChangeError(outcome) ==
    IF IsAxiosError(outcome)
    THEN JsOr(ResponseError(outcome), "Failed to send change email message")
    ELSE "Failed to send reset email"

\* handleEmailChange after its await (lines 99-113)
EmailChangeSettled(outcome) ==
    ProfileSettle("handleEmailChange", outcome,
        IF outcome = "ok"
        THEN ProfileModal(profilePage, "success",
                "Email change instructions have been sent to your email.")
        ELSE ProfileModal(profilePage, "error", EmailChangeError(outcome)))

\* handlePasswordChange up to its await (lines 116-119); its button is
\* rendered while not editing and disabled while loading (lines 360-361)
HandlePasswordChange ==
    /\ ~profilePage.isEditing
    /\ ~profilePage.isLoading
    /\ ProfileCall("handlePasswordChange")

\* the message of the catch block of handlePasswordChange (lines 126-130)
PasswordChangeError(outcome) ==
    IF IsAxiosError(outcome)
    THEN JsOr(ResponseError(outcome), "Failed to send reset email")
    ELSE "Failed to send reset email"

\* handlePasswordChange after its await (lines 120-134)
PasswordChangeSettled(outcome) ==
    ProfileSettle("handlePasswordChange", outcome,
        IF outcome = "ok"
        THEN ProfileModal(profilePage, "success",
                "Password reset instructions have been sent to your email.")
        ELSE ProfileModal(profilePage, "error", PasswordChangeError(outcome)))

\* onClose of NotificationModal (line 422)
CloseProfileModal ==
    /\ route = ProfileRoute
    /\ profilePage.isModalOpen
    /\ profilePage' = [profilePage EXCEPT !.isModalOpen = FALSE]
    /\ lastOp' = Op("closeProfileModal", 0, "", FALSE)
    /\ UNCHANGED <<userPosts, route, changePasswordPage, adminDashboard>>

----------------------------------------------------------------------------
(* ChangePasswordPage *)

\* handleInputChange (lines 91-97)
HandleInputChange(name, value) ==
    /\ route = ChangePasswordRoute
    /\ changePasswordPage.formData[name] # value
    /\ changePasswordPage' = [changePasswordPage EXCEPT !.formData[name] = value]
    /\ lastOp' = Op("handleInputChange", 0, "", FALSE)
    /\ UNCHANGED <<userPosts, route, profilePage, adminDashboard>>

\* the fields are `required` (line 55): the browser submits the form only
\* with all of them filled in; the submit button is disabled while loading
\* (line 224)
FormSubmittable ==
    /\ route = ChangePasswordRoute
    /\ ~changePasswordPage.loading
    /\ \A name \in DOMAIN changePasswordPage.formData :
          changePasswordPage.formData[name] # ""

\* the minimum of line 115
MinPasswordLength == 6

\* ValidationError without the length check
ValidationErrorNoLength(formData) ==
    IF formData.newPassword # formData.confirmPassword
    THEN "New passwords do not match"
    ELSE Null

\* the validation of handleSubmit (lines 111-118): the error it sets, or Null
ValidationError(formData) ==
    IF formData.newPassword # formData.confirmPassword
    THEN "New passwords do not match"
    ELSE IF Len(formData.newPassword) < MinPasswordLength
    THEN "New password must be at least 6 characters long"
    ELSE Null

\* handleSubmit up to its await (lines 106-127)
HandleSubmit ==
    /\ FormSubmittable
    /\ LET invalid == ValidationError(changePasswordPage.formData)
       IN IF invalid # Null
          THEN /\ changePasswordPage' = [changePasswordPage EXCEPT !.error = invalid]
               /\ lastOp' = Op("handleSubmit", 0, "invalid", FALSE)
          ELSE /\ changePasswordPage' =
                    [changePasswordPage EXCEPT !.error = Null, !.loading = TRUE,
                                               !.stage = "post"]
               /\ lastOp' = Op("handleSubmit", 0, "sent", FALSE)
    /\ UNCHANGED <<userPosts, route, profilePage, adminDashboard>>

\* errorMessage of the catch block of handleSubmit (lines 136-138)
ChangePasswordError(outcome) ==
    IF IsAxiosError(outcome)
    THEN JsOr(ResponseError(outcome), "Failed to change password")
    ELSE "Failed to change password"

\* the catch and finally blocks of handleSubmit (lines 135-146)
SubmitFailed(page, outcome) ==
    [page EXCEPT !.error = ChangePasswordError(outcome),
                 !.modalStatus = "error",
                 !.modalMessage = ChangePasswordError(outcome),
                 !.isModalOpen = TRUE,
                 !.loading = FALSE,
                 !.stage = "idle"]

\* handleSubmit after axios.post, up to AuthService.logout (lines 129-133)
SubmitSettled(outcome) ==
    /\ changePasswordPage.stage = "post"
    /\ changePasswordPage' =
          IF outcome = "ok"
          THEN [changePasswordPage EXCEPT
                  !.modalStatus = "success",
                  !.modalMessage = "Password successfully changed! Redirecting to login...",
                  !.isModalOpen = TRUE,
                  !.stage = "logout"]
          ELSE SubmitFailed(changePasswordPage, outcome)
    /\ lastOp' = Op(Settled("handleSubmit"), 0, outcome, FALSE)
    /\ UNCHANGED <<userPosts, route, profilePage, adminDashboard>>

\* how AuthService.logout ends: its promise resolves, or rejects with one
\* of the errors of a call to the backend
LogoutOutcomes == CallOutcomes

\* handleSubmit after AuthService.logout (lines 134-146)
LogoutSettled(outcome) ==
    /\ changePasswordPage.stage = "logout"
    /\ changePasswordPage' =
          IF outcome = "ok"
          THEN [changePasswordPage EXCEPT !.timer = TRUE, !.loggedOut = TRUE,
                                          !.loading = FALSE, !.stage = "idle"]
          ELSE SubmitFailed(changePasswordPage, outcome)
    /\ lastOp' = Op(Settled("logout"), 0, outcome, FALSE)
    /\ UNCHANGED <<userPosts, route, profilePage, adminDashboard>>

\* the callback of setTimeout (line 134): navigate('/login')
Redirect ==
    /\ changePasswordPage.timer
    /\ changePasswordPage' = [changePasswordPage EXCEPT !.timer = FALSE]
    /\ route' = LoginRoute
    /\ lastOp' = Op("redirect", 0, "", FALSE)
    /\ UNCHANGED <<userPosts, profilePage, adminDashboard>>

\* onClose of NotificationModal (line 250)
CloseChangePasswordModal ==
    /\ route = ChangePasswordRoute
    /\ changePasswordPage.isModalOpen
    /\ changePasswordPage' = [changePasswordPage EXCEPT !.isModalOpen = FALSE]
    /\ lastOp' = Op("closeChangePasswordModal", 0, "", FALSE)
    /\ UNCHANGED <<userPosts, route, profilePage, adminDashboard>>

----------------------------------------------------------------------------
(* The account pages as a program of their own: the router shows one of    *)
(* them, UserPosts is not mounted.                                         *)

AccountInit ==
    /\ InitUserPosts
    /\ serverItems = 0
    /\ route \in {ProfileRoute, ChangePasswordRoute}
    /\ profilePage = InitProfilePage
    /\ changePasswordPage = InitChangePasswordPage
    /\ adminDashboard = InitAdminDashboard(NoUser)

AccountNext ==
    \/ StartEditing
    \/ CancelEditing
    \/ HandleEditSubmit
    \/ \E outcome \in CallOutcomes : EditSubmitSettled(outcome)
    \/ \E file \in BOOLEAN : HandleImageUpload(file)
    \/ \E outcome \in CallOutcomes : ImageUploadSettled(outcome)
    \/ HandleEmailChange
    \/ \E outcome \in CallOutcomes : EmailChangeSettled(outcome)
    \/ HandlePasswordChange
    \/ \E outcome \in CallOutcomes : PasswordChangeSettled(outcome)
    \/ CloseProfileModal
    \/ \E name \in DOMAIN changePasswordPage.formData, value \in Passwords :
          HandleInputChange(name, value)
    \/ HandleSubmit
    \/ \E outcome \in CallOutcomes : SubmitSettled(outcome)
    \/ \E outcome \in LogoutOutcomes : LogoutSettled(outcome)
    \/ Redirect
    \/ CloseChangePasswordModal

AccountSpec == AccountInit /\ [][AccountNext]_vars

----------------------------------------------------------------------------
(* AdminDashboard as a program of its own: the router shows it, the parent *)
(* passes currentUser and may pass another one with a later render.        *)

\* the index of a tab in Tabs
TabIndex(tab) == CHOOSE k \in 1..Len(Tabs) : Tabs[k] = tab

\* onClick of a tab button (line 49); the buttons exist while the dashboard
\* is rendered
SetActiveTab(tab) ==
    /\ route = AdminRoute
    /\ adminDashboard.rendered.element = "dashboard"
    /\ adminDashboard' =
          [adminDashboard EXCEPT
              !.activeTab = tab,
              !.rendered = Render(adminDashboard.currentUser, tab)]
    /\ lastOp' = Op("setActiveTab", TabIndex(tab), "", FALSE)
    /\ UNCHANGED <<userPosts, route, profilePage, changePasswordPage>>

\* the parent renders AdminDashboard with another currentUser (line 13)
CurrentUserChanges(currentUser) ==
    /\ route = AdminRoute
    /\ currentUser # adminDashboard.currentUser
    /\ adminDashboard' =
          [adminDashboard EXCEPT
              !.currentUser = currentUser,
              !.rendered = Render(currentUser, adminDashboard.activeTab)]
    /\ lastOp' = Op("currentUser", currentUser.id, "", FALSE)
    /\ UNCHANGED <<userPosts, route, profilePage, changePasswordPage>>

\* the effect of the Navigate element (line 18): the router leaves the page
NavigateHome ==
    /\ route = AdminRoute
    /\ adminDashboard.rendered.element = "Navigate"
    /\ route' = adminDashboard.rendered.to
    /\ lastOp' = Op("navigate", 0, "", FALSE)
    /\ UNCHANGED <<userPosts, profilePage, changePasswordPage, adminDashboard>>

\* the router shows the admin page again: a new AdminDashboard (line 15)
VisitAdmin(currentUser) ==
    /\ route = HomeRoute
    /\ route' = AdminRoute
    /\ adminDashboard' = InitAdminDashboard(currentUser)
    /\ lastOp' = Op("visitAdmin", currentUser.id, "", FALSE)
    /\ UNCHANGED <<userPosts, profilePage, changePasswordPage>>

AdminInit ==
    /\ InitUserPosts
    /\ serverItems = 0
    /\ route = AdminRoute
    /\ profilePage = InitProfilePage
    /\ changePasswordPage = InitChangePasswordPage
    /\ \E currentUser \in Users \cup {NoUser} :
          adminDashboard = InitAdminDashboard(currentUser)

AdminNext ==
    \/ \E k \in 1..Len(Tabs) : SetActiveTab(Tabs[k])
    \/ \E currentUser \in Users \cup {NoUser} : CurrentUserChanges(currentUser)
    \/ NavigateHome
    \/ \E currentUser \in Users \cup {NoUser} : VisitAdmin(currentUser)

AdminSpec == AdminInit /\ [][AdminNext]_vars

----------------------------------------------------------------------------
(* Claims *)

\* the requests a step adds to the outstanding ones
Added == SubSeq(requests', Len(requests) + 1, Len(requests'))

\* a step of a handler that only adds requests
KeepsRequests == SubSeq(requests', 1, Len(requests)) = requests

PageChangeInRange ==
    /\ lastOp'.op = "handlePageChange"
    /\ lastOp'.arg >= 1
    /\ lastOp'.arg <= pagination.totalPages

\* C1 as stated: for every n with 1 <= n <= pagination.totalPages, n equal
\* to the current page included, handlePageChange(n) sets
\* pagination.currentPage to n and causes exactly one fetchPosts call, whose
\* request carries page=n.
C1_EveryPageChangeFetches ==
    [][PageChangeInRange =>
        /\ pagination'.currentPage = lastOp'.arg
        /\ KeepsRequests
        /\ Len(Added) = 1
        /\ Added[1].page = lastOp'.arg]_vars

\* C1 amended: for every n with 1 <= n <= pagination.totalPages,
\* handlePageChange(n) sets pagination.currentPage to n; when n differs from
\* the current page it causes exactly one fetchPosts call, for page n with
\* the current sort and filters, and when n is the current page it causes
\* none.
C1_PageChangeFetchesOnChange ==
    [][PageChangeInRange =>
        /\ pagination'.currentPage = lastOp'.arg
        /\ KeepsRequests
        /\ IF lastOp'.arg # pagination.currentPage
           THEN /\ Len(Added) = 1
                /\ Added[1].page = lastOp'.arg
                /\ Added[1].sort = sortBy
                /\ Added[1].filters = filters
                /\ Added[1].owner = 0
                /\ isLoading'
           ELSE Added = <<>>]_vars

\* handlePageChange(2) was called from page 1 and its request is outstanding
C1_Witness ==
    /\ lastOp.op = "handlePageChange"
    /\ lastOp.arg = 2
    /\ posts.page = 1
    /\ pagination.currentPage = 2
    /\ Len(requests) = 1
    /\ requests[1].page = 2

\* C2: handlePageChange(n) with n < 1 or n > pagination.totalPages leaves
\* pagination.currentPage and all other view state unchanged and issues no
\* request.
C2_OutOfRangeIgnored ==
    [][(/\ lastOp'.op = "handlePageChange"
        /\ (lastOp'.arg < 1 \/ lastOp'.arg > pagination.totalPages)) =>
        /\ view' = view
        /\ requests' = requests
        /\ deleting' = deleting]_vars

\* handlePageChange was called with a page beyond the last one
C2_Witness ==
    /\ lastOp.op = "handlePageChange"
    /\ lastOp.arg > pagination.totalPages
    /\ pagination.totalPages = 2

\* C3 as stated: pagination.currentPage <= pagination.totalPages whenever
\* pagination.totalPages > 0, in every reachable state.
C3_PageWithinTotal ==
    pagination.totalPages > 0 => pagination.currentPage <= pagination.totalPages

\* ceil(x / y) for y > 0 and x >= -1, by its definition
CeilOf(x, y) ==
    IF x <= 0 THEN 0
    ELSE CHOOSE k \in 1..x : k * y >= x /\ (k - 1) * y < x

\* the requests among `reqs` made by the handleDeletePost call of slot d
OfCall(reqs, d) == {i \in 1..Len(reqs) : reqs[i].owner = d}

\* C4: after handleDeletePost's delete request succeeds, the current page
\* is fetched again; when that fetch has ended, page newTotalPages =
\* ceil((totalItems - 1) / itemsPerPage) is fetched if the current page
\* exceeds newTotalPages and newTotalPages > 0, and the view ends on that
\* page when the fetch succeeds; otherwise, newTotalPages = 0 included, no
\* second fetch is issued.  The call reads the page, totalItems and
\* itemsPerPage of the render it was made in.
C4_DeleteRefetch ==
    [][\A d \in 1..MaxDeletes :
        LET call == deleting[d]
            page == call.pagination.currentPage
            newTotalPages == CeilOf(call.pagination.totalItems - 1,
                                    call.pagination.itemsPerPage)
        IN /\ (call.stage = "delete" /\ deleting'[d].stage # "delete"
                /\ lastOp'.outcome = "ok") =>
                /\ lastOp'.op = "deleteResponse"
                /\ KeepsRequests
                /\ Len(Added) = 1
                /\ Added[1].page = page
                /\ Added[1].owner = d
                /\ deleting'[d].stage = "fetch1"
           /\ (call.stage = "fetch1" /\ deleting'[d].stage # "fetch1") =>
                IF page > newTotalPages /\ newTotalPages > 0
                THEN /\ deleting'[d].stage = "fetch2"
                     /\ \E i \in OfCall(requests', d) :
                           /\ requests'[i].page = newTotalPages
                           /\ requests'[i].sort = call.sortBy
                           /\ requests'[i].filters = call.filters
                     /\ Cardinality(OfCall(requests', d)) = 1
                ELSE /\ deleting'[d].stage = "idle"
                     /\ OfCall(requests', d) = {}
           /\ (call.stage = "fetch2" /\ deleting'[d].stage # "fetch2") =>
                /\ deleting'[d].stage = "idle"
                /\ OfCall(requests', d) = {}
                /\ lastOp'.outcome = "ok" =>
                      /\ pagination'.currentPage = newTotalPages
                      /\ posts'.page = newTotalPages]_vars

\* page size 6, 7 items, on page 2: the delete succeeded, page 2 was
\* fetched again and the fetch of page 1 is outstanding
C4_Witness ==
    \E d \in 1..MaxDeletes :
        /\ deleting[d].stage = "fetch2"
        /\ deleting[d].pagination.totalItems = 7
        /\ deleting[d].pagination.itemsPerPage = 6
        /\ deleting[d].pagination.currentPage = 2
        /\ deleting[d].fetched = <<2, 1>>
        /\ serverItems = 6
        /\ \E i \in OfCall(requests, d) : requests[i].page = 1

\* C5 as stated: when a list fetch fails with an HTTP error whose body
\* carries an error message, the Error State's message is that message and
\* its code is POSTS_LOAD_ERROR.
C5_BackendMessageShown ==
    (lastOp.op = "fetchResponse" /\ lastOp.outcome = "http") =>
        /\ errorDetails.message = BackendError("http")
        /\ errorDetails.code = "POSTS_LOAD_ERROR"

UserFetchOps ==
    {"handleSortChange", "handleFilterChange", "handleResetAll", "handlePageChange"}

\* C6 as stated: the Error State is cleared whenever a new fetch starts and
\* whenever the user dismisses it: after a handler has started a fetch, or
\* after onClose has run, no error is held or shown.
C6_ErrorCleared ==
    [][((lastOp'.op \in UserFetchOps /\ Added # <<>>) \/ lastOp'.op = "onClose") =>
        /\ ~showErrorModal'
        /\ errorDetails' = NoError]_vars

\* C7 as stated: every call to handleSortChange, handleFilterChange or
\* handleResetAll that changes the query state is followed, until the user's
\* next action, by exactly one request for the new query state, the
\* requests the effect issues when an answer's pagination is applied
\* included.
C7_ExactlyOneFetch == hist # -1 => hist = 1

\* C8: immediately after handleSortChange, handleFilterChange or
\* handleResetAll, pagination.currentPage is 1 whatever it was, and every
\* request the action issues is for page 1.
C8_PageResetToOne ==
    [][lastOp'.op \in {"handleSortChange", "handleFilterChange", "handleResetAll"} =>
        /\ pagination'.currentPage = 1
        /\ KeepsRequests
        /\ \A i \in 1..Len(Added) : Added[i].page = 1]_vars

\* handleSortChange was called while page 2 was shown, and its request for
\* page 1 is outstanding
C8_Witness ==
    /\ lastOp.op = "handleSortChange"
    /\ posts.page = 2
    /\ posts.sort # sortBy
    /\ pagination.currentPage = 1
    /\ Len(requests) = 1
    /\ requests[1].page = 1
    /\ requests[1].sort = sortBy

\* C9: no request is cancelled and no answer is dropped: a request leaves
\* the outstanding ones only by being answered, and a successful answer
\* replaces posts and pagination by its own, also when a request issued
\* later was answered before it.
C9_LastResolvedWins ==
    [][/\ lastOp'.op # "fetchResponse" => KeepsRequests
       /\ (lastOp'.op = "fetchResponse" /\ lastOp'.outcome = "ok") =>
            \E i \in 1..Len(requests) :
                /\ requests[i].overtaken = lastOp'.overtaken
                /\ posts' = ServerPosts(requests[i], serverItems)
                /\ pagination' = ServerPagination(requests[i].page,
                                                  requests[i].limit, serverItems)]_vars

\* the answer to an overtaken request was the last to arrive: the posts
\* shown are those of another sort than the current one, and nothing is
\* outstanding
C9_Witness ==
    /\ lastOp.op = "fetchResponse"
    /\ lastOp.outcome = "ok"
    /\ lastOp.overtaken
    /\ posts.sort # sortBy
    /\ requests = <<>>
    /\ \A d \in 1..MaxDeletes : deleting[d].stage = "idle"

\* C10 as stated: if every request is answered or fails in the end, then
\* from every state with isLoading true a state with isLoading false and no
\* request outstanding is reached.
C10_LoadingSettles == isLoading ~> (~isLoading /\ requests = <<>>)

UserOps ==
    {"handleSortChange", "handleFilterChange", "handleResetAll",
     "handlePageChange", "handleDeletePost"}

\* C11 as stated: the view starts with isLoading true and a fetch fired on
\* mount, and after every sort change, filter change, page change (to a page
\* in range), reset and delete isLoading is true, before any answer arrives.
C11_EveryActionLoads ==
    /\ [](~mounted => isLoading)
    /\ [][/\ lastOp'.op = "mount" => (isLoading' /\ Len(Added) = 1)
          /\ (/\ lastOp'.op \in UserOps
              /\ lastOp'.op = "handlePageChange" => PageChangeInRange)
               => isLoading']_vars

\* C11 amended: the view starts with isLoading true and the mount effect
\* fires one fetch.  handleFilterChange and handleResetAll always start a
\* fetch and set isLoading true; handleSortChange does so when it changes
\* sortBy or the page, handlePageChange when it changes the page; otherwise
\* they leave isLoading as it was.  handleDeletePost leaves isLoading as it
\* was (false): it becomes true only once the DELETE has succeeded.
C11_ActionsThatLoad ==
    /\ [](~mounted => isLoading)
    /\ [][/\ lastOp'.op = "mount" => (isLoading' /\ Len(Added) = 1)
          /\ lastOp'.op \in {"handleFilterChange", "handleResetAll"} =>
                (isLoading' /\ Len(Added) = 1)
          /\ lastOp'.op = "handleSortChange" =>
                IF sortBy' # sortBy \/ pagination.currentPage # 1
                THEN isLoading' /\ Len(Added) = 1
                ELSE isLoading' = isLoading /\ Added = <<>>
          /\ lastOp'.op = "handlePageChange" =>
                IF PageChangeInRange /\ lastOp'.arg # pagination.currentPage
                THEN isLoading' /\ Len(Added) = 1
                ELSE isLoading' = isLoading /\ Added = <<>>
          /\ lastOp'.op = "handleDeletePost" =>
                (~isLoading' /\ Added = <<>>)
          /\ (lastOp'.op = "deleteResponse" /\ lastOp'.outcome = "ok") =>
                isLoading']_vars

\* handleResetAll was called on a loaded list in its default query state,
\* and the view is loading again
C11_Witness ==
    /\ lastOp.op = "handleResetAll"
    /\ posts.len > 0
    /\ posts.sort = DefaultSort
    /\ posts.page = 1
    /\ actions = 1
    /\ isLoading
    /\ Len(requests) = 1

\* C12: when handleDeletePost's delete request fails, the Error State has
\* code POST_DELETE_ERROR, its message is the backend's error when the
\* failure carries one and the delete-specific fallback otherwise, and the
\* error modal is shown.
C12_DeleteFailureShown ==
    (lastOp.op = "deleteResponse" /\ lastOp.outcome # "ok") =>
        /\ showErrorModal
        /\ errorDetails.code = "POST_DELETE_ERROR"
        /\ errorDetails.message =
              IF lastOp.outcome = "http"
              THEN [src |-> "backend", text |-> "Database unavailable"]
              ELSE [src |-> "i18n", text |-> "userPosts.errors.deleteFailed"]

\* a DELETE failed with an HTTP error whose body carries a message
C12_Witness ==
    /\ lastOp.op = "deleteResponse"
    /\ lastOp.outcome = "http"
    /\ errorDetails.message.src = "backend"
    /\ showErrorModal

\* C13: when a list fetch fails with no structured error body, the Error
\* State's message is the generic load-failed copy, its details the generic
\* retry hint and its code POSTS_LOAD_ERROR.
C13_LoadFailureFallback ==
    (lastOp.op = "fetchResponse" /\ lastOp.outcome = "network") =>
        /\ errorDetails.message = [src |-> "i18n", text |-> "userPosts.errors.loadFailed"]
        /\ errorDetails.details = [src |-> "i18n", text |-> "error.tryAgain"]
        /\ errorDetails.code = "POSTS_LOAD_ERROR"
        /\ showErrorModal

\* a list fetch failed without a response, after a failed delete had left
\* its own error
C13_Witness ==
    /\ lastOp.op = "fetchResponse"
    /\ lastOp.outcome = "network"
    /\ posts.len > 0
    /\ errorDetails.code = "POSTS_LOAD_ERROR"

QueryState == <<sortBy, filters, pagination.currentPage>>

\* C14: handleResetAll leaves the Query State at the default sort, empty
\* filters and page 1, from any state; called twice in a row, the second
\* call leaves the Query State as the first did.
C14_ResetIdempotent ==
    [][lastOp'.op = "handleResetAll" =>
        /\ QueryState' = <<DefaultSort, EmptyFilters, 1>>
        /\ lastOp.op = "handleResetAll" => QueryState' = QueryState]_vars

\* handleResetAll was called twice in a row on a loaded list: its two
\* requests are outstanding
C14_Witness ==
    /\ lastOp.op = "handleResetAll"
    /\ actions = 2
    /\ posts.len > 0
    /\ Len(requests) = 2
    /\ requests[1] = requests[2]
    /\ QueryState = <<DefaultSort, EmptyFilters, 1>>

\* the requests the continuation of an answered GET adds
AnswerAdded == SubSeq(requests', Len(requests), Len(requests'))

Failed == lastOp'.op \in {"fetchResponse", "deleteResponse"} /\ lastOp'.outcome # "ok"

Surfaced(h) ==
    IF h = "handleEditSubmit" THEN profilePage.error
    ELSE IF h = "handleSubmit"
    THEN IF changePasswordPage.isModalOpen THEN changePasswordPage.modalMessage ELSE Null
    ELSE IF profilePage.isModalOpen THEN profilePage.modalMessage ELSE Null

AccountMutations ==
    {"handleEditSubmit", "handleImageUpload", "handleEmailChange",
     "handlePasswordChange", "handleSubmit"}

Fallbacks ==
    {"Failed to update profile", "Failed to update profile picture",
     "Failed to send change email message", "Failed to send reset email",
     "Failed to change password"}

\* C16: when an account mutation (profile update, image upload, email-change
\* and password-change initiation, change-password submit) fails, the
\* message surfaced to the user is the backend's error when the failure
\* carries one, and a hardcoded fallback only when it carries none.
C16_BackendErrorSurfaced ==
    \A h \in AccountMutations :
        (lastOp.op = Settled(h) /\ lastOp.outcome # "ok") =>
            IF ResponseError(lastOp.outcome) # Null
            THEN Surfaced(h) = ResponseError(lastOp.outcome)
            ELSE Surfaced(h) \in Fallbacks

HasDate(f, field) == "dateInterval" \in DOMAIN f /\ f.dateInterval[field] # ""

HasCategories(f) == "categoryIds" \in DOMAIN f /\ f.categoryIds # <<>>

\* C18: every request of fetchPosts(page, sort, filters) carries exactly
\* page, limit (the page size, 6), sort, startDate if and only if
\* filters.dateInterval.startDate is non-empty, endDate if and only if
\* filters.dateInterval.endDate is non-empty, and categories (the ids joined
\* by commas) if and only if filters.categoryIds is non-empty; nothing else.
C18_RequestParams ==
    \A i \in 1..Len(requests) :
        LET r == requests[i]
            p == r.params
        IN /\ DOMAIN p = {"page", "limit", "sort"}
                \cup (IF HasDate(r.filters, "startDate") THEN {"startDate"} ELSE {})
                \cup (IF HasDate(r.filters, "endDate") THEN {"endDate"} ELSE {})
                \cup (IF HasCategories(r.filters) THEN {"categories"} ELSE {})
           /\ p.page = NumberToString(r.page)
           /\ p.limit = "6"
           /\ p.sort = r.sort
           /\ HasDate(r.filters, "startDate") => p.startDate = r.filters.dateInterval.startDate
           /\ HasDate(r.filters, "endDate") => p.endDate = r.filters.dateInterval.endDate
           /\ HasCategories(r.filters) => p.categories = Join(r.filters.categoryIds)

\* a request is outstanding whose filters hold a start date, an empty end
\* date and two category ids
C18_Witness ==
    /\ Len(requests) = 1
    /\ DOMAIN requests[1].params = {"page", "limit", "sort", "startDate", "categories"}
    /\ requests[1].params.page = "1"
    /\ requests[1].params.limit = "6"
    /\ requests[1].params.categories = "1,2"
    /\ requests[1].params.startDate = "2024-01-01"
    /\ requests[1].filters.dateInterval.endDate = ""

\* C19: isLoading is true in every state in which a fetchPosts request is
\* outstanding, overlapping fetches included.
C19_LoadingWhileOutstanding == requests # <<>> => isLoading

\* C20: a failed fetchPosts call leaves posts, pagination, sortBy and
\* filters as they were; of the view state only errorDetails, showErrorModal
\* and isLoading may change.
C20_FailedFetchFrame ==
    [][(lastOp'.op = "fetchResponse" /\ lastOp'.outcome # "ok") =>
        /\ posts' = posts
        /\ pagination' = pagination
        /\ sortBy' = sortBy
        /\ filters' = filters
        /\ errorDetails'.code = "POSTS_LOAD_ERROR"
        /\ showErrorModal']_vars

\* the fetch for page 2 failed: page 1 is still shown, and the page number
\* stays where handlePageChange put it
C20_Witness ==
    /\ lastOp.op = "fetchResponse"
    /\ lastOp.outcome # "ok"
    /\ posts.page = 1
    /\ posts.len > 0
    /\ pagination.currentPage = 2
    /\ requests = <<>>
    /\ showErrorModal

\* C21: when the delete request of handleDeletePost fails, the handler
\* issues no fetch and leaves posts, pagination, sortBy, filters and
\* isLoading unchanged; only the error state (errorDetails, showErrorModal)
\* changes.
C21_FailedDeleteFrame ==
    [][(lastOp'.op = "deleteResponse" /\ lastOp'.outcome # "ok") =>
        /\ requests' = requests
        /\ posts' = posts
        /\ pagination' = pagination
        /\ sortBy' = sortBy
        /\ filters' = filters
        /\ isLoading' = isLoading
        /\ errorDetails'.code = "POST_DELETE_ERROR"
        /\ showErrorModal']_vars

\* a DELETE failed on a loaded second page: the list is as it was, nothing
\* is outstanding
C21_Witness ==
    /\ lastOp.op = "deleteResponse"
    /\ lastOp.outcome # "ok"
    /\ posts.page = 2
    /\ posts.len > 0
    /\ pagination.currentPage = 2
    /\ requests = <<>>
    /\ ~isLoading
    /\ errorDetails.code = "POST_DELETE_ERROR"
    /\ showErrorModal

\* C22: ChangePasswordPage.handleSubmit sends the change-password request
\* only when newPassword equals confirmPassword and has at least 6
\* characters; otherwise it sets the validation error of the failed test,
\* sends no request, leaves loading false and opens no modal.
C22_ValidationGuardsRequest ==
    [][lastOp'.op = "handleSubmit" =>
        LET formData == changePasswordPage.formData
            page == changePasswordPage'
        IN IF formData.newPassword # formData.confirmPassword
           THEN /\ page.error = "New passwords do not match"
                /\ page.stage = "idle"
                /\ ~page.loading
                /\ page.isModalOpen = changePasswordPage.isModalOpen
           ELSE IF Len(formData.newPassword) < 6
           THEN /\ page.error = "New password must be at least 6 characters long"
                /\ page.stage = "idle"
                /\ ~page.loading
                /\ page.isModalOpen = changePasswordPage.isModalOpen
           ELSE /\ page.stage = "post"
                /\ page.loading
                /\ page.error = Null]_vars

\* handleSubmit was called with two equal passwords of 5 characters
C22_Witness ==
    /\ lastOp.op = "handleSubmit"
    /\ changePasswordPage.formData.newPassword = "short"
    /\ changePasswordPage.formData.confirmPassword = "short"
    /\ changePasswordPage.error = "New password must be at least 6 characters long"
    /\ changePasswordPage.stage = "idle"
    /\ ~changePasswordPage.loading
    /\ ~changePasswordPage.isModalOpen

\* handleSubmit has exited: on a validation error, in its catch block, or
\* past AuthService.logout
SubmitExited ==
    \/ lastOp.op = "handleSubmit" /\ lastOp.outcome = "invalid"
    \/ lastOp.op = Settled("handleSubmit") /\ lastOp.outcome # "ok"
    \/ lastOp.op = Settled("logout")

\* loading is false once handleSubmit has exited
LoadingFalseOnExit == SubmitExited => ~changePasswordPage.loading

\* C23: whenever the change-password request has succeeded, handleSubmit
\* ends with the modal status 'success' (never 'error'), AuthService.logout
\* called and the navigation to /login scheduled; loading is false after
\* handleSubmit exits, on every path.
C23_SuccessStaysSuccess ==
    /\ lastOp.op = Settled("logout") =>
          /\ changePasswordPage.modalStatus = "success"
          /\ changePasswordPage.timer
    /\ LoadingFalseOnExit

Management == {"PostsManagement", "CommentsManagement", "CategoriesManagement"}

\* C24: while AdminDashboard is shown, it renders management content (the
\* component of the posts, comments or categories tab) only when
\* currentUser.role is ADMIN; for a null user and for any other role it
\* renders only a redirect to '/', whatever activeTab is and whatever tabs
\* were selected before; activeTab is always one of 'posts', 'comments',
\* 'categories', and 'posts' after the first render.
C24_AdminOnly ==
    route = AdminRoute =>
        LET currentUser == adminDashboard.currentUser
            rendered == adminDashboard.rendered
            isAdmin == currentUser # NoUser /\ currentUser.role = "admin"
        IN /\ adminDashboard.activeTab \in {"posts", "comments", "categories"}
           /\ lastOp.op \in {"init", "visitAdmin"} => adminDashboard.activeTab = "posts"
           /\ rendered.content.component \in Management <=> isAdmin
           /\ ~isAdmin =>
                rendered = [element |-> "Navigate", to |-> "/",
                            content |-> [component |-> "", user |-> 0]]
           /\ isAdmin =>
                /\ rendered.element = "dashboard"
                /\ rendered.content.component =
                      IF adminDashboard.activeTab = "posts" THEN "PostsManagement"
                      ELSE IF adminDashboard.activeTab = "comments"
                      THEN "CommentsManagement" ELSE "CategoriesManagement"

\* an admin selected the comments tab and then the parent passed a user
\* that is not an admin: the redirect is rendered
C24_Witness ==
    /\ route = AdminRoute
    /\ lastOp.op = "currentUser"
    /\ adminDashboard.activeTab = "comments"
    /\ adminDashboard.currentUser.role = "user"
    /\ adminDashboard.rendered.element = "Navigate"

====
